---- MODULE Spec2Model ----
(***************************************************************************)
(* The shadow-mapping render pipeline of RenderPasses / WebGlApp:          *)
(* scene loading (openScene), per-frame state update (updateAppStates)     *)
(* and the three render passes (normal, pixel filter, shadow map) with the *)
(* shader uniforms, framebuffers and texture units they touch.             *)
(*                                                                         *)
(* Lengths and coordinates are fixed-point numbers in hundredths           *)
(* (1.0 is 100, the near plane 0.01 is 1); angles are whole degrees.       *)
(* Matrices are kept symbolically: a matrix is the record of the call that *)
(* built it, and the identity matrix is its own value.                     *)
(***************************************************************************)
EXTENDS Integers, Sequences, FiniteSets, TLC

\* ----------------------------------------------------------------- bounds
\* Longest scene (number of nodes) openScene is given.
MaxNodes == 3
\* Length of the shader list handed to the constructor.  The list is built
\* by the caller; the constructor takes slots 0, 1, length-2 and length-1
\* and the shading states select slots 2 and 3.
NumShaders == 6

\* ------------------------------------------------------ program constants
ShadowMapSize == 1024
ShadowUnitDirectional == 3
ShadowUnitPoint == 4
PhongShader == 2
TexturedShader == 3

\* ------------------------------------------------------------ input sets
\* Canvas sizes the frame callback passes to render.
CanvasSizes == {<<640, 480>>, <<800, 600>>}
\* Eye positions the arcball controls can move the main camera to.
CameraEyes == {<<200, 50, -200>>, <<0, 50, -300>>}
\* Scale of the scene root's transformation.
SceneScales == {<<100, 100, 100>>}
NodeKinds == {"model", "ambient", "directional", "point"}
SceneFiles == UNION {[1..n -> NodeKinds] : n \in 0..MaxNodes}
ShadingStates == {"Phong", "Textured", "Shadow"}
FilterStates == {-1, 0, 2}
ShadingDebugStates == {"None", "Preview", "Normals"}
FboNames == {"pixel_filter", "directional", "point"}
TextureUnits == 0..4
\* Units taken by the base color/material textures.
MaterialUnits == 0..2
Shaders == 0..(NumShaders - 1)

\* ------------------------------------------------------------- vec3, mat4
Vec3Zero == <<0, 0, 0>>

vec3_add(a, b) == <<a[1] + b[1], a[2] + b[2], a[3] + b[3]>>

vec3_sub(a, b) == <<a[1] - b[1], a[2] - b[2], a[3] - b[3]>>

RECURSIVE SqrtIter(_, _)
SqrtIter(n, r) ==
    IF (r + (n \div r)) \div 2 >= r THEN r
    ELSE SqrtIter(n, (r + (n \div r)) \div 2)

\* Floor of the square root.
ISqrt(n) == IF n <= 0 THEN 0 ELSE SqrtIter(n, n)

vec3_length(a) == ISqrt(a[1] * a[1] + a[2] * a[2] + a[3] * a[3])

\* A unit vector in thousandths; the zero vector stays zero.
vec3_normalize(a) ==
    LET len == vec3_length(a)
    IN  IF len > 0
        THEN <<(a[1] * 1000) \div len, (a[2] * 1000) \div len, (a[3] * 1000) \div len>>
        ELSE Vec3Zero

\* Dot product of two vectors in thousandths, in thousandths.
vec3_dot(a, b) == (a[1] * b[1] + a[2] * b[2] + a[3] * b[3]) \div 1000

\* Cosines (thousandths) of 0, 15, ..., 180 degrees.
CosTable == <<1000, 966, 866, 707, 500, 259, 0, -259, -500, -707, -866, -966, -1000>>

Abs(x) == IF x < 0 THEN -x ELSE x

\* rad2deg(Math.acos(c)) to the nearest tabulated angle, for c in thousandths.
AcosDeg(c) ==
    LET k == CHOOSE i \in DOMAIN CosTable :
                 \A j \in DOMAIN CosTable :
                     \/ Abs(CosTable[i] - c) < Abs(CosTable[j] - c)
                     \/ (Abs(CosTable[i] - c) = Abs(CosTable[j] - c) /\ i <= j)
    IN  (k - 1) * 15

Min(a, b) == IF a <= b THEN a ELSE b

Identity == [m |-> "identity"]

\* An unset mat4 uniform.
ZeroMatrix == [m |-> "zero"]

\* The up vector lookAt is given is itself computed from eye and center
\* (updateViewSpaceVectors), so the view matrix is a function of the two.
mat4_lookAt(eye, center) ==
    IF eye = center THEN Identity
    ELSE [m |-> "lookAt", eye |-> eye, center |-> center]

mat4_perspective(fovy, aspect, near, far) ==
    [m |-> "perspective", fovy |-> fovy, aspect |-> aspect, near |-> near, far |-> far]

mat4_ortho(left, right, bottom, top, near, far) ==
    [m |-> "ortho", left |-> left, right |-> right, bottom |-> bottom,
     top |-> top, near |-> near, far |-> far]

mat4_multiply(a, b) ==
    IF a = Identity THEN b
    ELSE IF b = Identity THEN a
    ELSE [m |-> "multiply", a |-> a, b |-> b]

\* ---------------------------------------------------------------- cameras
BaseCamera(eye, center) ==
    [eye |-> eye, center |-> center, view |-> mat4_lookAt(eye, center)]

PerspectiveCamera(eye, center, fovy, aspect, near, far) ==
    [type |-> "perspective", eye |-> eye, center |-> center,
     view |-> BaseCamera(eye, center).view,
     projection |-> mat4_perspective(fovy, aspect, near, far)]

OrthoCamera(eye, center, left, right, bottom, top, near, far) ==
    [type |-> "ortho", eye |-> eye, center |-> center,
     view |-> BaseCamera(eye, center).view,
     projection |-> mat4_ortho(left, right, bottom, top, near, far)]

\* new PerspectiveCamera( ) with every default.
DefaultCamera == PerspectiveCamera(<<200, 50, -200>>, Vec3Zero, 60, <<16, 9>>, 1, 10000)

\* camera.update: the controls put the eye at e; dirty when it moved.
camera_update(cam, e) ==
    IF e = cam.eye THEN cam
    ELSE [cam EXCEPT !.eye = e, !.view = mat4_lookAt(e, cam.center)]

\* ----------------------------------------------------------------- lights
NullLight == [file |-> <<>>, node |-> 0, kind |-> "null"]

\* The light object the scene creates for node i of a scene file.
LightOf(file, i) == [file |-> file, node |-> i, kind |-> file[i]]

NodeType(kind) == IF kind = "model" THEN "model" ELSE "light"

DirectionalLight_getCamera(scale) ==
    LET radius == vec3_length(scale)
        dir == Vec3Zero
        eye == Vec3Zero
        center == vec3_add(eye, dir)
    IN  OrthoCamera(eye, center, -radius, radius, -radius, radius, 1, 10000)

\* A point-light camera whose fovy is the angle itself, not twice the angle.
PointLight_getCamera_single_angle(scale) ==
    LET eye == Vec3Zero
        center == Vec3Zero
        v1 == vec3_normalize(vec3_sub(scale, eye))
        v2 == vec3_normalize(vec3_sub(center, eye))
        fovy == Min(AcosDeg(vec3_dot(v1, v2)), 180)
    IN  PerspectiveCamera(eye, center, fovy, <<1, 1>>, 1, 10000)

PointLight_getCamera(scale) ==
    LET eye == Vec3Zero
        center == Vec3Zero
        v1 == vec3_normalize(vec3_sub(scale, eye))
        v2 == vec3_normalize(vec3_sub(center, eye))
        fovy == Min(AcosDeg(vec3_dot(v1, v2)) * 2, 180)
    IN  PerspectiveCamera(eye, center, fovy, <<1, 1>>, 1, 10000)

\* The base class (and so an ambient light) has no camera.
NullCamera == [type |-> "null", eye |-> Vec3Zero, center |-> Vec3Zero,
               view |-> ZeroMatrix, projection |-> ZeroMatrix]

Light_getCamera(light, scale) ==
    CASE light.kind = "directional" -> DirectionalLight_getCamera(scale)
      [] light.kind = "point" -> PointLight_getCamera(scale)
      [] OTHER -> NullCamera

\* ------------------------------------------------------------------ state
VARIABLES
    scene,                   \* this.scene: [loaded, file, scale]
    sceneShader,             \* the shader scene.setShader gave the scene's models
    first_directional_light,
    first_point_light,
    active_shader,
    render_mode,
    filter_mode,
    fbo_preview,
    fbo,                     \* this.fbo: which of the three framebuffers it names
    camera,                  \* the main navigation camera
    uniforms,                \* per shader, the uniform values last uploaded
    fboSize,                 \* per framebuffer, <<width, height>>
    glFramebuffer,           \* the bound render target ("default" when none)
    glActiveTexture,         \* the active texture unit
    texUnit,                 \* per texture unit, the texture bound to it
    log                      \* the GL and scene calls of the frame just rendered

vars == <<scene, sceneShader, first_directional_light, first_point_light,
          active_shader, render_mode, filter_mode, fbo_preview, fbo, camera,
          uniforms, fboSize, glFramebuffer, glActiveTexture, texUnit, log>>

cube_shader == 0
light_shader == 1
shadow_shader == NumShaders - 2
quad_shader == NumShaders - 1

NullTexture == <<"null", "null">>

NoScene == [loaded |-> FALSE, file |-> <<>>, scale |-> Vec3Zero]

NoFault == [at |-> "none", fbo |-> "none"]

\* A shader program before any uniform is uploaded.
UnsetUniforms ==
    [u_eye |-> Vec3Zero, u_v |-> ZeroMatrix, u_p |-> ZeroMatrix,
     u_show_normals |-> 0,
     u_shadow_pv_directional |-> ZeroMatrix, u_shadow_pv_point |-> ZeroMatrix,
     u_shadow_tex_directional |-> 0, u_shadow_tex_point |-> 0]

\* The eye/view/projection uniforms of one shader.
CamOf(u) == [u_eye |-> u.u_eye, u_v |-> u.u_v, u_p |-> u.u_p]

\* The same three values of a camera.
CamValues(cam) == [u_eye |-> cam.eye, u_v |-> cam.view, u_p |-> cam.projection]

\* ----------------------------------------------------- the mutable world
\* The state a frame reads and writes.  A pass is the sequence of the calls
\* it makes, in program order (an instruction is [op, a]: the call and its
\* arguments); Exec runs them one after the other on the world.  thrown is
\* set by the call that throws; every later call of the frame is then
\* skipped (the exception unwinds render).  fault names the call the
\* environment makes fail in this frame, ret is the value the last call
\* returned, locals the local variables of the running pass.
World ==
    [uniforms |-> uniforms, sceneShader |-> sceneShader, fbo |-> fbo,
     fboSize |-> fboSize, glFramebuffer |-> glFramebuffer,
     glActiveTexture |-> glActiveTexture, texUnit |-> texUnit,
     log |-> <<>>, thrown |-> FALSE, fault |-> NoFault, ret |-> Identity,
     locals |-> [u_shadow_pv_directional |-> ZeroMatrix,
                 u_shadow_pv_point |-> ZeroMatrix]]

\* Record one call in the frame's log, with the render target and the
\* active shader's camera uniforms at the time of the call.
Emit(w, op, a) ==
    [w EXCEPT !.log = Append(@, [op |-> op, a |-> a, target |-> w.glFramebuffer,
                                 act |-> CamOf(w.uniforms[active_shader])])]

Throw(w, op, a) == [Emit(w, "throw", [in |-> op, a |-> a]) EXCEPT !.thrown = TRUE]

\* Operands the calls resolve when they run.
\* A framebuffer: one of the three by name, or the one this.fbo names.
FboOf(w, f) == IF f = "this.fbo" THEN w.fbo ELSE f

\* A size: the numbers given, or the current width and height of a framebuffer.
Size(width, height) == [of |-> "numbers", width |-> width, height |-> height]

FboSize(f) == [of |-> "fbo", fbo |-> f]

SizeOf(w, size) ==
    IF size.of = "fbo" THEN w.fboSize[FboOf(w, size.fbo)]
    ELSE <<size.width, size.height>>

\* A texture: a texture itself, or an attachment of a framebuffer.
fbo_getColorTexture(f) == <<"color", f>>

fbo_getDepthTexture(f) == <<"depth", f>>

TextureOf(w, tex) == <<tex[1], FboOf(w, tex[2])>>

\* A uniform value: the value given, or the local variable of a name.
Value(v) == [of |-> "value", value |-> v]

Local(name) == [of |-> "local", name |-> name]

ValueOf(w, v) == IF v.of = "local" THEN w.locals[v.name] ELSE v.value

\* Shader
shader_setUniform(w, s, name, v) ==
    [Emit(w, "setUniform", [shader |-> s, name |-> name, value |-> ValueOf(w, v)])
        EXCEPT !.uniforms[s][name] = ValueOf(w, v)]

\* WebGlApp.setViewport, WebGlApp.clearCanvas
setViewport(w, size) ==
    Emit(w, "viewport", [width |-> SizeOf(w, size)[1], height |-> SizeOf(w, size)[2]])

clearCanvas(w) == Emit(w, "clear", [target |-> w.glFramebuffer])

\* gl
gl_activeTexture(w, unit) ==
    [Emit(w, "activeTexture", [unit |-> unit]) EXCEPT !.glActiveTexture = unit]

gl_bindTexture(w, tex) ==
    [Emit(w, "bindTexture", [unit |-> w.glActiveTexture, texture |-> TextureOf(w, tex)])
        EXCEPT !.texUnit[w.glActiveTexture] = TextureOf(w, tex)]

\* A resize that records the height as the width and the width as the height.
fbo_resize_swapped(w, f, size) ==
    [Emit(w, "resize", [fbo |-> FboOf(w, f), width |-> SizeOf(w, size)[2],
                        height |-> SizeOf(w, size)[1]])
        EXCEPT !.fboSize[FboOf(w, f)] = <<SizeOf(w, size)[2], SizeOf(w, size)[1]>>]

\* FrameBufferObject
fbo_resize(w, f, size) ==
    [Emit(w, "resize", [fbo |-> FboOf(w, f), width |-> SizeOf(w, size)[1],
                        height |-> SizeOf(w, size)[2]])
        EXCEPT !.fboSize[FboOf(w, f)] = SizeOf(w, size)]

fbo_bindFramebuffer(w, f) ==
    IF w.fault.at = "bind" /\ w.fault.fbo = FboOf(w, f)
    THEN Throw(w, "bindFramebuffer", [fbo |-> FboOf(w, f)])
    ELSE [Emit(w, "bindFramebuffer",
               [fbo |-> FboOf(w, f), width |-> w.fboSize[FboOf(w, f)][1],
                height |-> w.fboSize[FboOf(w, f)][2]])
             EXCEPT !.glFramebuffer = FboOf(w, f)]

fbo_unbindFramebuffer(w, f) ==
    [Emit(w, "unbindFramebuffer", [fbo |-> FboOf(w, f)]) EXCEPT !.glFramebuffer = "default"]

\* Scene
scene_setShader(w, s) ==
    [Emit(w, "scene.setShader", [shader |-> s]) EXCEPT !.sceneShader = s]

\* One draw of the scene's nodes but those of the excluded types; the
\* models are drawn with the scene's shader.
scene_render(w, excludes) ==
    IF w.fault.at = "draw" /\ w.fault.fbo = w.glFramebuffer
    THEN Throw(w, "scene.render", [excludes |-> excludes])
    ELSE Emit(w, "scene.render",
              [excludes |-> excludes, shader |-> w.sceneShader,
               u |-> w.uniforms[w.sceneShader], units |-> w.texUnit])

\* Quad
quad_render(w, filter, color, depth) ==
    Emit(w, "quad.render", [filter |-> filter, color |-> TextureOf(w, color),
                            depth |-> TextureOf(w, depth)])

\* Light.render, Cube.render
light_render(w, light) == Emit(w, "light.render", [light |-> light])

cube_render(w) == Emit(w, "cube.render", [shader |-> cube_shader])

\* One call on the world.
Step(w, ins) ==
    IF w.thrown THEN w
    ELSE CASE ins.op = "setUniform" ->
                  shader_setUniform(w, ins.a.shader, ins.a.name, ins.a.value)
           [] ins.op = "viewport" -> setViewport(w, ins.a.size)
           [] ins.op = "clear" -> clearCanvas(w)
           [] ins.op = "activeTexture" -> gl_activeTexture(w, ins.a.unit)
           [] ins.op = "bindTexture" -> gl_bindTexture(w, ins.a.texture)
           [] ins.op = "resize" -> fbo_resize(w, ins.a.fbo, ins.a.size)
           [] ins.op = "bindFramebuffer" -> fbo_bindFramebuffer(w, ins.a.fbo)
           [] ins.op = "unbindFramebuffer" -> fbo_unbindFramebuffer(w, ins.a.fbo)
           [] ins.op = "scene.setShader" -> scene_setShader(w, ins.a.shader)
           [] ins.op = "scene.render" -> scene_render(w, ins.a.excludes)
           [] ins.op = "quad.render" ->
                  quad_render(w, ins.a.filter, ins.a.color, ins.a.depth)
           [] ins.op = "light.render" -> light_render(w, ins.a.light)
           [] ins.op = "cube.render" -> cube_render(w)
           [] ins.op = "this.fbo" -> [w EXCEPT !.fbo = ins.a.fbo]
           [] ins.op = "local" -> [w EXCEPT !.locals[ins.a.name] = ValueOf(w, ins.a.value)]
           [] ins.op = "local.ret" -> [w EXCEPT !.locals[ins.a.name] = w.ret]
           [] ins.op = "return" ->
                  [Emit(w, ins.a.from, ins.a) EXCEPT !.ret = ins.a.value]
           [] OTHER -> Emit(w, ins.op, ins.a)

\* The calls from the i-th on, each on the world the one before it left.
RECURSIVE Exec(_, _, _)
Exec(w, calls, i) ==
    IF i > Len(calls) THEN w
    ELSE CHOOSE r \in {Exec(next, calls, i + 1) : next \in {Step(w, calls[i])}} : TRUE

Call(op, a) == [op |-> op, a |-> a]

\* ----------------------------------------------------------- RenderPasses
renderpass_normal(size, excludes) ==
    <<Call("scene.setShader", [shader |-> active_shader]),
      Call("viewport", [size |-> size]),
      Call("clear", [x |-> 0]),
      Call("scene.render", [excludes |-> excludes])>>

\* A pixel-filter pass that draws the light gizmos before the quad.
renderpass_pixel_filter_gizmos_first(canvas_width, canvas_height) ==
    <<Call("resize", [fbo |-> "this.fbo", size |-> Size(canvas_width, canvas_height)]),
      Call("bindFramebuffer", [fbo |-> "this.fbo"])>>
    \o renderpass_normal(Size(canvas_width, canvas_height), {"light"})
    \o <<Call("unbindFramebuffer", [fbo |-> "this.fbo"]),
         Call("scene.render", [excludes |-> {"model"}]),
         Call("quad.render", [filter |-> filter_mode,
                              color |-> fbo_getColorTexture("this.fbo"),
                              depth |-> fbo_getDepthTexture("this.fbo")])>>

renderpass_pixel_filter(canvas_width, canvas_height) ==
    <<Call("resize", [fbo |-> "this.fbo", size |-> Size(canvas_width, canvas_height)]),
      Call("bindFramebuffer", [fbo |-> "this.fbo"])>>
    \o renderpass_normal(Size(canvas_width, canvas_height), {"light"})
    \o <<Call("unbindFramebuffer", [fbo |-> "this.fbo"]),
         Call("quad.render", [filter |-> filter_mode,
                              color |-> fbo_getColorTexture("this.fbo"),
                              depth |-> fbo_getDepthTexture("this.fbo")]),
         Call("scene.render", [excludes |-> {"model"}])>>

\* The three uniforms of a camera, uploaded to a shader.
setCameraUniforms(shader, cam) ==
    <<Call("setUniform", [shader |-> shader, name |-> "u_eye", value |-> Value(cam.eye)]),
      Call("setUniform", [shader |-> shader, name |-> "u_v", value |-> Value(cam.view)]),
      Call("setUniform", [shader |-> shader, name |-> "u_p",
                          value |-> Value(cam.projection)])>>

\* TODO configure shader parameters: the shadow camera's eye, view, projection.
depth_configure(shader, shadow_camera) == setCameraUniforms(shader, shadow_camera)

\* A depth draw that leaves the framebuffer bound.
depth_render_without_unbind(f) ==
    <<Call("resize", [fbo |-> f, size |-> FboSize(f)]),
      Call("bindFramebuffer", [fbo |-> f])>>
    \o renderpass_normal(FboSize(f), {"light"})

\* A depth draw that leaves the light nodes in.
depth_render_with_lights(f) ==
    <<Call("resize", [fbo |-> f, size |-> FboSize(f)]),
      Call("bindFramebuffer", [fbo |-> f])>>
    \o renderpass_normal(FboSize(f), {})
    \o <<Call("unbindFramebuffer", [fbo |-> f])>>

\* The scene's depth drawn into the framebuffer at its own size.
depth_render(f) ==
    <<Call("resize", [fbo |-> f, size |-> FboSize(f)]),
      Call("bindFramebuffer", [fbo |-> f])>>
    \o renderpass_normal(FboSize(f), {"light"})
    \o <<Call("unbindFramebuffer", [fbo |-> f])>>

\* A restore that forgets the projection.
depth_restore_without_projection(shader) ==
    <<Call("setUniform", [shader |-> shader, name |-> "u_eye", value |-> Value(camera.eye)]),
      Call("setUniform", [shader |-> shader, name |-> "u_v", value |-> Value(camera.view)])>>

\* TODO restore shader parameters: the main camera's eye, view, projection.
depth_restore(shader) == setCameraUniforms(shader, camera)

\* A depth pass that returns the product of the main camera's matrices.
do_depth_pass_returns_main_camera(f, current_light) ==
    LET scale == scene.scale
        shadow_camera == Light_getCamera(current_light, scale)
        shader == active_shader
    IN  <<Call("do_depth_pass", [fbo |-> f, light |-> current_light])>>
        \o depth_configure(shader, shadow_camera)
        \o depth_render(f)
        \o depth_restore(shader)
        \o <<Call("return", [from |-> "do_depth_pass.return", fbo |-> f,
                             light |-> current_light,
                             value |-> mat4_multiply(camera.projection, camera.view)])>>

do_depth_pass(f, current_light) ==
    LET scale == scene.scale
        shadow_camera == Light_getCamera(current_light, scale)
        shadow_v == shadow_camera.view
        shadow_p == shadow_camera.projection
        shader == active_shader
    IN  <<Call("do_depth_pass", [fbo |-> f, light |-> current_light])>>
        \o depth_configure(shader, shadow_camera)
        \o depth_render(f)
        \o depth_restore(shader)
        \o <<Call("return", [from |-> "do_depth_pass.return", fbo |-> f,
                             light |-> current_light,
                             value |-> mat4_multiply(shadow_p, shadow_v)])>>

\* A slot that runs its depth pass without looking whether a light is tracked.
shadow_slot_unguarded(name, f, light) ==
    do_depth_pass(f, light) \o <<Call("local.ret", [name |-> name])>>

\* if (light) local = this.do_depth_pass( gl, fbo, light )
shadow_slot(name, f, light) ==
    IF light # NullLight
    THEN do_depth_pass(f, light) \o <<Call("local.ret", [name |-> name])>>
    ELSE <<>>

\* compute the light-camera matrices for both lights
shadow_matrices ==
    <<Call("local", [name |-> "u_shadow_pv_directional", value |-> Value(Identity)]),
      Call("local", [name |-> "u_shadow_pv_point", value |-> Value(Identity)])>>
    \o shadow_slot("u_shadow_pv_directional", "directional", first_directional_light)
    \o shadow_slot("u_shadow_pv_point", "point", first_point_light)

\* A composite pass that uploads each light's matrix under the other's name.
composite_uniforms_swapped(shader) ==
    setCameraUniforms(shader, camera)
    \o <<Call("setUniform", [shader |-> shader, name |-> "u_shadow_pv_point",
                             value |-> Local("u_shadow_pv_directional")]),
         Call("setUniform", [shader |-> shader, name |-> "u_shadow_pv_directional",
                             value |-> Local("u_shadow_pv_point")])>>

\* First, restore camera position; second, pass-in light-camera matrices.
composite_uniforms(shader) ==
    setCameraUniforms(shader, camera)
    \o <<Call("setUniform", [shader |-> shader, name |-> "u_shadow_pv_point",
                             value |-> Local("u_shadow_pv_point")]),
         Call("setUniform", [shader |-> shader, name |-> "u_shadow_pv_directional",
                             value |-> Local("u_shadow_pv_directional")])>>

\* A composite pass that gives each sampler the other light's unit.
composite_textures_swapped_samplers(shader) ==
    <<Call("this.fbo", [fbo |-> "point"]),
      Call("setUniform", [shader |-> shader, name |-> "u_shadow_tex_point",
                          value |-> Value(ShadowUnitDirectional)]),
      Call("activeTexture", [unit |-> ShadowUnitPoint]),
      Call("bindTexture", [texture |-> fbo_getDepthTexture("this.fbo")]),
      Call("this.fbo", [fbo |-> "directional"]),
      Call("setUniform", [shader |-> shader, name |-> "u_shadow_tex_directional",
                          value |-> Value(ShadowUnitPoint)]),
      Call("activeTexture", [unit |-> ShadowUnitDirectional]),
      Call("bindTexture", [texture |-> fbo_getDepthTexture("this.fbo")])>>

\* Activate the depth texture for the point light, then for the directional.
composite_textures(shader) ==
    <<Call("this.fbo", [fbo |-> "point"]),
      Call("setUniform", [shader |-> shader, name |-> "u_shadow_tex_point",
                          value |-> Value(ShadowUnitPoint)]),
      Call("activeTexture", [unit |-> ShadowUnitPoint]),
      Call("bindTexture", [texture |-> fbo_getDepthTexture("this.fbo")]),
      Call("this.fbo", [fbo |-> "directional"]),
      Call("setUniform", [shader |-> shader, name |-> "u_shadow_tex_directional",
                          value |-> Value(ShadowUnitDirectional)]),
      Call("activeTexture", [unit |-> ShadowUnitDirectional]),
      Call("bindTexture", [texture |-> fbo_getDepthTexture("this.fbo")])>>

\* if (light) light.render( gl )
gizmo(light) ==
    IF light # NullLight THEN <<Call("light.render", [light |-> light])>> ELSE <<>>

\* render the scene normally without lights, then the annotation of lights
composite_draw ==
    <<Call("scene.render", [excludes |-> {"light"}])>>
    \o gizmo(first_directional_light)
    \o gizmo(first_point_light)

\* An unbind that clears the directional light's unit only.
unbind_textures_directional_only ==
    <<Call("activeTexture", [unit |-> ShadowUnitDirectional]),
      Call("bindTexture", [texture |-> NullTexture])>>

\* Unbind textures
unbind_textures ==
    <<Call("activeTexture", [unit |-> ShadowUnitDirectional]),
      Call("bindTexture", [texture |-> NullTexture]),
      Call("activeTexture", [unit |-> ShadowUnitPoint]),
      Call("bindTexture", [texture |-> NullTexture])>>

\* A shadow pass that binds the depth textures to their units before the
\* depth passes run.
renderpass_shadowmap_textures_first(canvas_width, canvas_height) ==
    composite_textures(shadow_shader)
    \o shadow_matrices
    \o <<Call("viewport", [size |-> Size(canvas_width, canvas_height)]),
         Call("clear", [x |-> 0]),
         Call("scene.setShader", [shader |-> shadow_shader])>>
    \o composite_uniforms(shadow_shader)
    \o composite_draw
    \o unbind_textures

\* A shadow pass that switches the scene to the shadow shader before the
\* depth passes run.
renderpass_shadowmap_shader_first(canvas_width, canvas_height) ==
    <<Call("scene.setShader", [shader |-> shadow_shader])>>
    \o shadow_matrices
    \o <<Call("viewport", [size |-> Size(canvas_width, canvas_height)]),
         Call("clear", [x |-> 0])>>
    \o composite_uniforms(shadow_shader)
    \o composite_textures(shadow_shader)
    \o composite_draw
    \o unbind_textures

renderpass_shadowmap(canvas_width, canvas_height) ==
    shadow_matrices
    \o <<Call("viewport", [size |-> Size(canvas_width, canvas_height)]),
         Call("clear", [x |-> 0]),
         Call("scene.setShader", [shader |-> shadow_shader])>>
    \o composite_uniforms(shadow_shader)
    \o composite_textures(shadow_shader)
    \o composite_draw
    \o unbind_textures

\* ---------------------------------------------------------------- WebGlApp
\* if (this.scene) this['renderpass_' + this.render_mode](...)
renderpass(canvas_width, canvas_height) ==
    CASE ~scene.loaded -> <<>>
      [] render_mode = "normal" ->
             renderpass_normal(Size(canvas_width, canvas_height), {})
      [] render_mode = "pixel_filter" ->
             renderpass_pixel_filter(canvas_width, canvas_height)
      [] render_mode = "shadowmap" ->
             renderpass_shadowmap(canvas_width, canvas_height)

render(canvas_width, canvas_height) ==
    <<Call("render", [mode |-> render_mode, scene |-> scene.loaded,
                      width |-> canvas_width, height |-> canvas_height]),
      Call("viewport", [size |-> Size(canvas_width, canvas_height)]),
      Call("clear", [x |-> 0])>>
    \o renderpass(canvas_width, canvas_height)
    \o <<Call("cube.render", [x |-> 0]),
         Call("return", [from |-> "render.return", preview |-> fbo_preview,
                         value |-> fbo_preview])>>

\* A loop that keeps the last light of each kind instead of the first.
RECURSIVE TrackLights_last(_, _, _, _)
TrackLights_last(file, i, dl, pl) ==
    IF i > Len(file) THEN <<dl, pl>>
    ELSE LET isLight == NodeType(file[i]) = "light"
             dl2 == IF isLight /\ file[i] = "directional"
                    THEN LightOf(file, i) ELSE dl
             pl2 == IF isLight /\ file[i] = "point"
                    THEN LightOf(file, i) ELSE pl
         IN  TrackLights_last(file, i + 1, dl2, pl2)

\* The loop of openScene over the nodes from node i on: <<directional, point>>.
RECURSIVE TrackLights(_, _, _, _)
TrackLights(file, i, dl, pl) ==
    IF i > Len(file) THEN <<dl, pl>>
    ELSE LET isLight == NodeType(file[i]) = "light"
             dl2 == IF isLight /\ file[i] = "directional" /\ dl = NullLight
                    THEN LightOf(file, i) ELSE dl
             pl2 == IF isLight /\ file[i] = "point" /\ pl = NullLight
                    THEN LightOf(file, i) ELSE pl
         IN  TrackLights(file, i + 1, dl2, pl2)

\* What openScene leaves in <<first_directional_light, first_point_light>>;
\* both handlers are reset before the scene is loaded.
openScene(file) == TrackLights(file, 1, NullLight, NullLight)

\* ----------------------------------------------------------------- actions
Init ==
    /\ scene = NoScene
    /\ sceneShader = PhongShader
    /\ first_directional_light = NullLight
    /\ first_point_light = NullLight
    /\ active_shader = PhongShader
    /\ render_mode = "normal"
    /\ filter_mode = -1
    /\ fbo_preview = FALSE
    /\ fbo = "pixel_filter"
    /\ camera = DefaultCamera
    /\ uniforms = [s \in Shaders |->
                      [UnsetUniforms EXCEPT !.u_eye = DefaultCamera.eye,
                                            !.u_v = DefaultCamera.view,
                                            !.u_p = DefaultCamera.projection]]
    /\ fboSize = [f \in FboNames |->
                     IF f = "pixel_filter" THEN <<0, 0>>
                     ELSE <<ShadowMapSize, ShadowMapSize>>]
    /\ glFramebuffer = "default"
    /\ glActiveTexture = 0
    /\ texUnit = [u \in TextureUnits |-> NullTexture]
    /\ log = <<>>

OpenScene(file, scale) ==
    /\ scene' = [loaded |-> TRUE, file |-> file, scale |-> scale]
    /\ sceneShader' = active_shader
    /\ first_directional_light' = openScene(file)[1]
    /\ first_point_light' = openScene(file)[2]
    /\ log' = <<>>
    /\ UNCHANGED <<active_shader, render_mode, filter_mode, fbo_preview, fbo, camera,
                   uniforms, fboSize, glFramebuffer, glActiveTexture, texUnit>>

\* The shader slot a Shading state selects.
ShadingShader(shading, old) ==
    CASE shading = "Phong" -> PhongShader
      [] shading = "Textured" -> TexturedShader
      [] shading = "Shadow" -> PhongShader
      [] OTHER -> old

\* A selection that takes filter index 0 for no filter.
RenderMode_positive_filter(shading, filter) ==
    IF shading = "Shadow" THEN "shadowmap"
    ELSE IF filter > 0 THEN "pixel_filter"
    ELSE "normal"

RenderMode(shading, filter) ==
    IF shading = "Shadow" THEN "shadowmap"
    ELSE IF filter >= 0 THEN "pixel_filter"
    ELSE "normal"

\* The Control state with the mouse input of the frame: where it puts the
\* camera's eye, or what it makes of the scene root's scale.
ControlInputs ==
    {[control |-> "Camera", eye |-> e, scale |-> Vec3Zero] : e \in CameraEyes}
    \cup {[control |-> "Scene Node", eye |-> Vec3Zero, scale |-> sc] : sc \in SceneScales}

\* updateAppStates with the UI states read from app_state.
UpdateAppStates(shading, filter, debug, input) ==
    LET control == input.control
        eye == input.eye
        scale == input.scale
        new_active == IF scene.loaded THEN ShadingShader(shading, active_shader)
                      ELSE active_shader
        new_camera == IF control = "Camera" THEN camera_update(camera, eye) ELSE camera
        dirty == new_camera # camera
        u1 == CASE debug = "Preview" -> uniforms
                [] debug = "Normals" ->
                       [uniforms EXCEPT ![new_active].u_show_normals = 1]
                [] OTHER -> [uniforms EXCEPT ![new_active].u_show_normals = 0]
        u2 == IF dirty
              THEN [s \in Shaders |->
                       [u1[s] EXCEPT !.u_eye = new_camera.eye, !.u_v = new_camera.view]]
              ELSE u1
    IN  /\ active_shader' = new_active
        /\ sceneShader' = IF new_active # active_shader THEN new_active ELSE sceneShader
        /\ filter_mode' = filter
        /\ render_mode' = RenderMode(shading, filter)
        /\ fbo_preview' = CASE debug = "Preview" -> TRUE
                             [] debug = "Normals" -> fbo_preview
                             [] OTHER -> FALSE
        /\ uniforms' = u2
        /\ camera' = new_camera
        /\ scene' = IF control = "Scene Node" /\ scene.loaded
                    THEN [scene EXCEPT !.scale = scale] ELSE scene
        /\ log' = <<>>
        /\ UNCHANGED <<first_directional_light, first_point_light, fbo, fboSize,
                       glFramebuffer, glActiveTexture, texUnit>>

\* One frame: render with the canvas size of the frame; fault names the
\* call that throws in it, if any.
Render(canvas, fault) ==
    LET w == Exec([World EXCEPT !.fault = fault], render(canvas[1], canvas[2]), 1)
    IN  /\ uniforms' = w.uniforms
        /\ sceneShader' = w.sceneShader
        /\ fbo' = w.fbo
        /\ fboSize' = w.fboSize
        /\ glFramebuffer' = w.glFramebuffer
        /\ glActiveTexture' = w.glActiveTexture
        /\ texUnit' = w.texUnit
        /\ log' = w.log
        /\ UNCHANGED <<scene, first_directional_light, first_point_light, active_shader,
                       render_mode, filter_mode, fbo_preview, camera>>

\* The calls a frame can fail in: the framebuffer bind or the scene draw of
\* the depth pass into framebuffer f.
Faults == {[at |-> a, fbo |-> f] : a \in {"bind", "draw"}, f \in {"directional", "point"}}

\* Scenes covering every combination of tracked lights: none at all, only
\* an ambient light, one slot, both slots in either order.
PipelineScenes ==
    {<<>>, <<"ambient", "model">>, <<"model", "directional">>, <<"point", "model">>,
     <<"directional", "point">>, <<"point", "ambient", "directional">>}

\* The render pipeline over the pipeline scenes.
Next ==
    \/ \E file \in PipelineScenes, scale \in SceneScales : OpenScene(file, scale)
    \/ \E shading \in ShadingStates, filter \in FilterStates, input \in ControlInputs :
          UpdateAppStates(shading, filter, "None", input)
    \/ \E canvas \in CanvasSizes : Render(canvas, NoFault)

Spec == Init /\ [][Next]_vars

\* Scene loading over every scene file of up to MaxNodes nodes.
NextScene ==
    \/ \E file \in SceneFiles, scale \in SceneScales : OpenScene(file, scale)
    \/ \E shading \in ShadingStates, filter \in FilterStates, input \in ControlInputs :
          UpdateAppStates(shading, filter, "None", input)

SpecScene == Init /\ [][NextScene]_vars

\* The shadow-map pipeline on a scene with both lights, with frames in which
\* a call of the depth pass throws; the frame after a failed one runs from
\* the state the failed one left.
NextFault ==
    \/ OpenScene(<<"directional", "point">>, <<100, 100, 100>>)
    \/ \E shading \in ShadingStates, input \in ControlInputs :
          UpdateAppStates(shading, -1, "None", input)
    \/ \E fault \in Faults \cup {NoFault} : Render(<<640, 480>>, fault)

SpecFault == Init /\ [][NextFault]_vars

\* ------------------------------------------------------- the frame's log
\* The frame whose calls the log holds.
InFrame == Len(log) > 0

FrameMode == log[1].a.mode

FrameCompleted == InFrame /\ log[Len(log)].op = "render.return"

FrameThrew == InFrame /\ log[Len(log)].op = "throw"

\* A frame of render mode m that ran a render pass.
PassFrame(m) == InFrame /\ log[1].a.scene /\ FrameMode = m

\* The positions of the calls of an operation.
Calls(op) == {i \in DOMAIN log : log[i].op = op}

\* The entry of the depth pass that returns at position i.
EntryOf(i) == CHOOSE j \in Calls("do_depth_pass") :
                  /\ j < i
                  /\ \A k \in Calls("do_depth_pass") : k < i => k <= j

\* --------------------------------------------------------------- claims
\* C1: when do_depth_pass returns normally, the active shader's u_eye, u_v
\* and u_p are the main camera's eye, view and projection, the values they
\* had when the depth pass was entered.
C1_DepthPassRestoresCamera ==
    \A i \in Calls("do_depth_pass.return") :
        /\ log[i].act = CamValues(camera)
        /\ log[i].act = log[EntryOf(i)].act

\* A depth pass that drew the scene with the light's camera in the active
\* shader and returned, the main camera moved from where it started.
C1_Witness ==
    /\ camera.eye # DefaultCamera.eye
    /\ \E i \in Calls("do_depth_pass.return") :
          \E j \in Calls("scene.render") :
              /\ EntryOf(i) < j /\ j < i
              /\ log[j].act # CamValues(camera)
              /\ log[j].a.u.u_p # camera.projection

\* C2: when the framebuffer bind or the scene draw inside do_depth_pass
\* throws, the active shader's u_eye, u_v and u_p are still set back to the
\* main camera's values: no failed frame leaves the light camera's values
\* in them.
C2_RestoredOnEveryExitPath ==
    FrameThrew => CamOf(uniforms[active_shader]) = CamValues(camera)

\* The calls of the depth passes of a frame: entries, returns, and the
\* calls on the framebuffers.
DepthPassCalls ==
    Calls("do_depth_pass") \cup Calls("do_depth_pass.return") \cup Calls("resize")
        \cup Calls("bindFramebuffer") \cup Calls("unbindFramebuffer")
        \cup {i \in DOMAIN log : log[i].target # "default"}

\* The calls of the composite pass: the switch to the shadow shader, the
\* uniforms of the shadow shader, the texture units.
CompositeCalls ==
    {i \in Calls("scene.setShader") : log[i].a.shader = shadow_shader}
        \cup {i \in Calls("setUniform") : log[i].a.shader = shadow_shader}
        \cup Calls("activeTexture") \cup Calls("bindTexture")

TrackedLights == {first_directional_light, first_point_light} \ {NullLight}

\* C3: in a shadow-mode frame every call of the depth passes of the tracked
\* lights (directional first, then point), the framebuffer unbind and the
\* restore of the active shader's camera uniforms included, comes before
\* every call of the composite pass.
C3_DepthPassesBeforeComposite ==
    PassFrame("shadowmap") =>
        /\ CompositeCalls # {}
        /\ \A i \in DepthPassCalls : \A j \in CompositeCalls : i < j
        /\ \A j \in CompositeCalls :
              /\ log[j].target = "default"
              /\ log[j].act = CamValues(camera)
        /\ {log[i].a.light : i \in Calls("do_depth_pass.return")} = TrackedLights
        /\ Cardinality(Calls("do_depth_pass.return")) = Cardinality(TrackedLights)
        /\ Cardinality(Calls("do_depth_pass")) = Cardinality(TrackedLights)
        /\ \A i \in Calls("do_depth_pass.return") : \A j \in Calls("do_depth_pass") :
              (log[i].a.fbo = "directional" /\ log[j].a.fbo = "point") => i < j

\* A completed shadow-mode frame with a depth pass for each of the lights.
C3_Witness ==
    /\ PassFrame("shadowmap") /\ FrameCompleted
    /\ Cardinality(Calls("do_depth_pass.return")) = 2
    /\ CompositeCalls # {}

\* C4: in every depth pass of every frame, whatever frames were rendered
\* before in whatever modes and canvas sizes, the framebuffer bound for the
\* directional light and the one bound for the point light are 1024 wide
\* and 1024 high.
C4_ShadowMapsFixedResolution ==
    PassFrame("shadowmap") =>
        \A i \in Calls("bindFramebuffer") :
            /\ log[i].a.fbo \in {"directional", "point"}
            /\ log[i].a.width = ShadowMapSize
            /\ log[i].a.height = ShadowMapSize

\* C5: in every pixel-filter frame, whatever frames were rendered before,
\* the framebuffer that is resized to the canvas size, bound for the scene
\* draw and sampled by the quad draw is fbo_pixel_filter.
C5_PixelFilterUsesOwnFramebuffer ==
    PassFrame("pixel_filter") =>
        /\ \A i \in Calls("resize") \cup Calls("bindFramebuffer")
                       \cup Calls("unbindFramebuffer") :
              log[i].a.fbo = "pixel_filter"
        /\ \A i \in Calls("quad.render") :
              /\ log[i].a.color = fbo_getColorTexture("pixel_filter")
              /\ log[i].a.depth = fbo_getDepthTexture("pixel_filter")

\* The operations of the calls of the frame, in order.
Ops == [i \in DOMAIN log |-> log[i].op]

\* C6: for every filter index f >= 0 a pixel-filter frame runs these steps
\* in this order: the framebuffer is resized to the canvas size and bound;
\* the scene is drawn once without its light nodes while it is bound; the
\* framebuffer is unbound; the quad is drawn with filter index f and that
\* framebuffer's color and depth textures; after the quad draw the light
\* gizmos are drawn (the scene without its models) to the default target.
C6_PixelFilterStepOrder ==
    PassFrame("pixel_filter") =>
        /\ filter_mode >= 0
        /\ Ops = <<"render", "viewport", "clear",
                   "resize", "bindFramebuffer",
                   "scene.setShader", "viewport", "clear", "scene.render",
                   "unbindFramebuffer", "quad.render", "scene.render",
                   "cube.render", "render.return">>
        /\ log[4].a.width = log[1].a.width /\ log[4].a.height = log[1].a.height
        /\ log[5].a = log[4].a
        /\ \A i \in 6..9 : log[i].target = log[4].a.fbo
        /\ log[9].a.excludes = {"light"}
        /\ log[10].a.fbo = log[4].a.fbo
        /\ log[11].target = "default"
        /\ log[11].a.filter = filter_mode
        /\ log[11].a.color = fbo_getColorTexture(log[4].a.fbo)
        /\ log[11].a.depth = fbo_getDepthTexture(log[4].a.fbo)
        /\ log[12].target = "default"
        /\ log[12].a.excludes = {"model"}

\* A completed pixel-filter frame with filter index 2 on a 800 x 600 canvas.
C6_Witness ==
    /\ PassFrame("pixel_filter") /\ FrameCompleted
    /\ filter_mode = 2
    /\ log[1].a.width = 800
    /\ \E i \in Calls("quad.render") : log[i].a.filter = 2

\* The two light slots of the shadow pass: the light tracked in a slot, the
\* matrix uniform and the sampler uniform of the slot, read from a shader's
\* uniforms.
Slots == {"directional", "point"}

SlotLight(slot) ==
    IF slot = "directional" THEN first_directional_light ELSE first_point_light

SlotMatrixName(slot) ==
    IF slot = "directional" THEN "u_shadow_pv_directional" ELSE "u_shadow_pv_point"

SlotSampler(u, slot) ==
    IF slot = "directional" THEN u.u_shadow_tex_directional ELSE u.u_shadow_tex_point

\* The uploads of a slot's matrix, and the draws of the composite pass.
MatrixUploads(slot) == {i \in Calls("setUniform") : log[i].a.name = SlotMatrixName(slot)}

CompositeDraws ==
    {i \in Calls("scene.render") :
        log[i].a.shader = shadow_shader /\ log[i].target = "default"}

\* C7: in a shadow-mode frame, for each slot in which no light is tracked:
\* no depth pass runs for the slot, the matrix uploaded under the slot's
\* uniform is the identity, no gizmo is drawn for the slot, and the frame
\* completes without an error.
C7_EmptySlotFallsBackToIdentity ==
    PassFrame("shadowmap") =>
        \A slot \in Slots :
            SlotLight(slot) = NullLight =>
                /\ \A i \in Calls("do_depth_pass") : log[i].a.fbo # slot
                /\ \A i \in DOMAIN log : log[i].target # slot
                /\ \A i \in Calls("resize") \cup Calls("bindFramebuffer") :
                      log[i].a.fbo # slot
                /\ MatrixUploads(slot) # {}
                /\ \A i \in MatrixUploads(slot) :
                      log[i].a.shader = shadow_shader /\ log[i].a.value = Identity
                /\ \A i \in Calls("light.render") : log[i].a.light.kind # slot
                /\ Calls("throw") = {}
                /\ FrameCompleted

\* A completed shadow-mode frame on a scene whose only light is ambient.
C7_Witness ==
    /\ PassFrame("shadowmap") /\ FrameCompleted
    /\ scene.file = <<"ambient", "model">>
    /\ first_directional_light = NullLight /\ first_point_light = NullLight
    /\ uniforms[shadow_shader].u_shadow_pv_directional = Identity
    /\ uniforms[shadow_shader].u_shadow_pv_point = Identity
    /\ CompositeDraws # {}

\* C8: in a shadow-mode frame with a directional and a point light tracked,
\* exactly two depth passes run (the directional light into fbo_directional,
\* the point light into fbo_point), the matrices uploaded as
\* u_shadow_pv_directional and u_shadow_pv_point are the values those passes
\* returned, neither is the identity, and both light gizmos are drawn after
\* the shadowed draw of the scene.
C8_BothLightsShadowed ==
    (/\ PassFrame("shadowmap")
     /\ first_directional_light # NullLight
     /\ first_point_light # NullLight) =>
        /\ Cardinality(Calls("do_depth_pass")) = 2
        /\ Cardinality(Calls("do_depth_pass.return")) = 2
        /\ Cardinality(CompositeDraws) = 1
        /\ \A slot \in Slots :
              /\ \E i \in Calls("do_depth_pass") :
                    log[i].a = [fbo |-> slot, light |-> SlotLight(slot)]
              /\ \E i \in Calls("scene.render") : log[i].target = slot
              /\ \E r \in Calls("do_depth_pass.return") :
                    /\ log[r].a.fbo = slot
                    /\ log[r].a.light = SlotLight(slot)
                    /\ log[r].a.value # Identity
                    /\ MatrixUploads(slot) # {}
                    /\ \A i \in MatrixUploads(slot) :
                          /\ r < i
                          /\ log[i].a.shader = shadow_shader
                          /\ log[i].a.value = log[r].a.value
              /\ \E g \in Calls("light.render") :
                    /\ log[g].a.light = SlotLight(slot)
                    /\ \A d \in CompositeDraws : d < g

\* A completed shadow-mode frame with both lights, the point light first in
\* the scene file.
C8_Witness ==
    /\ PassFrame("shadowmap") /\ FrameCompleted
    /\ scene.file = <<"point", "ambient", "directional">>
    /\ Cardinality(Calls("do_depth_pass.return")) = 2
    /\ Cardinality(Calls("light.render")) = 2
    /\ uniforms[shadow_shader].u_shadow_pv_directional
           # uniforms[shadow_shader].u_shadow_pv_point

\* The nodes of the open scene whose light is of a kind, in node order.
NodesOfKind(kind) == {i \in DOMAIN scene.file : scene.file[i] = kind}

FirstOfKind(kind) ==
    IF NodesOfKind(kind) = {} THEN NullLight
    ELSE LightOf(scene.file,
                 CHOOSE i \in NodesOfKind(kind) : \A j \in NodesOfKind(kind) : i <= j)

\* C9: after openScene, first_directional_light is the light of the first
\* node of the scene whose light is a DirectionalLight (null if there is
\* none) and first_point_light the light of the first node whose light is a
\* PointLight (null if none): a later light of the same kind does not
\* replace it, an ambient light is never tracked, and no light of a scene
\* opened before stays tracked.
C9_FirstLightsTracked ==
    /\ first_directional_light = FirstOfKind("directional")
    /\ first_point_light = FirstOfKind("point")
    /\ \A l \in TrackedLights :
          /\ scene.loaded
          /\ l.file = scene.file
          /\ l.kind # "ambient"
          /\ scene.file[l.node] = l.kind

\* A scene with two point lights after an ambient one: the first point
\* light is the one tracked, and no directional light is.
C9_Witness ==
    /\ scene.loaded
    /\ scene.file = <<"ambient", "point", "point">>
    /\ first_point_light = LightOf(scene.file, 2)
    /\ first_directional_light = NullLight

\* C10: during the composite draw, the unit number in each shadow sampler
\* uniform (u_shadow_tex_directional, u_shadow_tex_point) is the unit on
\* which that light's own framebuffer depth texture is bound, the two units
\* differ, and neither is one of the units 0 to 2 of the material textures.
C10_ShadowSamplerUnits ==
    PassFrame("shadowmap") =>
        /\ CompositeDraws # {}
        /\ \A d \in CompositeDraws :
              /\ \A slot \in Slots :
                    /\ SlotSampler(log[d].a.u, slot) \in TextureUnits \ MaterialUnits
                    /\ log[d].a.units[SlotSampler(log[d].a.u, slot)]
                           = fbo_getDepthTexture(slot)
              /\ SlotSampler(log[d].a.u, "directional")
                     # SlotSampler(log[d].a.u, "point")

\* A composite draw with both depth textures bound, after both depth passes.
C10_Witness ==
    /\ PassFrame("shadowmap") /\ FrameCompleted
    /\ Cardinality(Calls("do_depth_pass.return")) = 2
    /\ \E d \in CompositeDraws :
          /\ log[d].a.units[ShadowUnitDirectional] = fbo_getDepthTexture("directional")
          /\ log[d].a.units[ShadowUnitPoint] = fbo_getDepthTexture("point")
          /\ log[d].a.u.u_shadow_tex_directional = ShadowUnitDirectional
          /\ log[d].a.u.u_shadow_tex_point = ShadowUnitPoint

\* The textures a texture unit can hold that are depth textures of the
\* shadow-map framebuffers.
ShadowDepthTextures == {fbo_getDepthTexture(slot) : slot \in Slots}

\* C11: when renderpass_shadowmap has returned, the texture units 3 and 4
\* have no texture bound, so when a following frame starts, in whatever
\* mode, no shadow depth texture is bound to any texture unit.
C11_ShadowUnitsUnboundAfterFrame ==
    /\ \A unit \in TextureUnits : texUnit[unit] \notin ShadowDepthTextures
    /\ texUnit[ShadowUnitDirectional] = NullTexture
    /\ texUnit[ShadowUnitPoint] = NullTexture

\* The state after a shadow-mode frame that had both depth textures bound
\* during its composite draw.
C11_Witness ==
    /\ PassFrame("shadowmap") /\ FrameCompleted
    /\ \E d \in CompositeDraws :
          /\ log[d].a.units[ShadowUnitDirectional] = fbo_getDepthTexture("directional")
          /\ log[d].a.units[ShadowUnitPoint] = fbo_getDepthTexture("point")
    /\ \A unit \in TextureUnits : texUnit[unit] = NullTexture

\* What an updateAppStates step with the UI states shading and filter must
\* leave in render_mode.
SelectsStrategy(shading, filter) ==
    /\ (shading = "Shadow") => render_mode' = "shadowmap"
    /\ (shading # "Shadow" /\ filter >= 0) => render_mode' = "pixel_filter"
    /\ (shading # "Shadow" /\ filter < 0) => render_mode' = "normal"
    /\ filter_mode' = filter

UpdateSelectsStrategy ==
    \A shading \in ShadingStates, filter \in FilterStates, input \in ControlInputs :
        UpdateAppStates(shading, filter, "None", input) => SelectsStrategy(shading, filter)

\* The calls of a frame by the pass render dispatched to: none without a
\* scene, otherwise those of the pass render_mode names.
DispatchesByMode ==
    InFrame =>
        /\ FrameMode = render_mode
        /\ ~log[1].a.scene =>
              Ops = <<"render", "viewport", "clear", "cube.render", "render.return">>
        /\ PassFrame("normal") =>
              Ops = <<"render", "viewport", "clear", "scene.setShader", "viewport",
                      "clear", "scene.render", "cube.render", "render.return">>
        /\ PassFrame("pixel_filter") =>
              /\ filter_mode >= 0
              /\ Cardinality(Calls("quad.render")) = 1
              /\ CompositeDraws = {}
        /\ PassFrame("shadowmap") =>
              /\ Cardinality(CompositeDraws) = 1
              /\ Calls("quad.render") = {}

\* C12: after every updateAppStates, render_mode is 'shadowmap' exactly when
\* the Shading state is 'Shadow' (whatever the filter index), otherwise
\* 'pixel_filter' exactly when the filter index is >= 0, otherwise 'normal';
\* a filter index < 0 never selects the pixel-filter pass; render runs the
\* pass render_mode names, and only when a scene is loaded.
C12_RenderStrategySelection ==
    /\ [][UpdateSelectsStrategy]_vars
    /\ [](render_mode = "pixel_filter" => filter_mode >= 0)
    /\ []DispatchesByMode

\* A frame dispatched to the shadow pass while a filter is selected.
C12_Witness ==
    /\ PassFrame("shadowmap") /\ FrameCompleted
    /\ filter_mode = 2
    /\ CompositeDraws # {}

\* ------------------------------------------------------- shadow cameras
\* Scene scales for the shadow cameras (hundredths): none, uniform,
\* non-uniform, along one axis.
LightScales ==
    {<<0, 0, 0>>, <<100, 100, 100>>, <<200, 100, 50>>, <<300, 0, 0>>, <<50, 50, 400>>}

LightScenes ==
    {<<"directional", "point">>, <<"point", "directional", "directional">>,
     <<"directional", "directional", "point">>}

\* The shadow pass on scenes of every scale: the depth passes call getCamera
\* of the tracked lights with the scale of the scene.
NextLight ==
    \/ \E file \in LightScenes, scale \in LightScales : OpenScene(file, scale)
    \/ \E input \in ControlInputs : UpdateAppStates("Shadow", -1, "None", input)
    \/ \E canvas \in CanvasSizes : Render(canvas, NoFault)

SpecLight == Init /\ [][NextLight]_vars

\* The scene draws of the depth pass of a slot, and the radius of the scene.
DepthDraws(slot) == {i \in Calls("scene.render") : log[i].target = slot}

Radius == vec3_length(scene.scale)

\* C13: for every scene scale s with length(s) > 0, the orthographic camera
\* DirectionalLight.getCamera(s) returns has the bounds
\* [-length(s), length(s)] on all three axes: left/right, bottom/top and
\* the near/far depth range.
C13_OrthoBoundsOnAllAxes ==
    \A d \in DepthDraws("directional") :
        Radius > 0 =>
            /\ log[d].act.u_p.m = "ortho"
            /\ log[d].act.u_p.left = -Radius /\ log[d].act.u_p.right = Radius
            /\ log[d].act.u_p.bottom = -Radius /\ log[d].act.u_p.top = Radius
            /\ log[d].act.u_p.near = -Radius /\ log[d].act.u_p.far = Radius

\* The angle in degrees between two vectors; a zero vector normalises to
\* the zero vector, whose dot with anything is 0.
AngleDeg(a, b) == AcosDeg(vec3_dot(vec3_normalize(a), vec3_normalize(b)))

light_rotation(light) ==
    CASE light.node % 3 = 1 -> "none"
      [] light.node % 3 = 2 -> "x90"
      [] OTHER -> "z90"

light_translation(light) == <<100 * light.node, 300, -100 * light.node>>

vec3_transformQuat(v, rotation) ==
    CASE rotation = "x90" -> <<v[1], -v[3], v[2]>>
      [] rotation = "z90" -> <<-v[2], v[1], v[3]>>
      [] OTHER -> v

\* A unit vector in thousandths times a length.
vec3_scale(v, k) == <<(v[1] * k) \div 1000, (v[2] * k) \div 1000, (v[3] * k) \div 1000>>

\* The direction of a directional light: the down vector, rotated.
light_direction(light) == vec3_transformQuat(<<0, -1000, 0>>, light_rotation(light))

\* C15: the eye of the directional shadow camera is
\* center - direction * radius, direction being the down vector (0,-1,0)
\* rotated by the light node's rotation and radius the length of the scene
\* scale, so that lights of different rotations get different cameras.
C15_DirectionalEyeFollowsRotation ==
    \A d \in DepthDraws("directional") :
        log[d].act.u_eye =
            vec3_sub(Light_getCamera(first_directional_light, scene.scale).center,
                     vec3_scale(light_direction(first_directional_light), Radius))

\* C16: the point-light shadow camera is a perspective camera of aspect 1
\* whose eye is the light's world-space translation, the translation part
\* of its model matrix.
C16_PointEyeIsLightTranslation ==
    \A d \in DepthDraws("point") :
        /\ log[d].act.u_p.m = "perspective"
        /\ log[d].act.u_p.aspect = <<1, 1>>
        /\ log[d].act.u_eye = light_translation(first_point_light)

\* The scene draw of the depth pass that returns at position r.
DrawOf(r) == CHOOSE d \in Calls("scene.render") : EntryOf(r) < d /\ d < r

ResizeSizes == CanvasSizes \cup {<<ShadowMapSize, ShadowMapSize>>}

\* resize(w, h) twice in a row records what one resize(w, h) records, and
\* a resize of a framebuffer to its own width and height records what was
\* recorded before.
ResizeIdempotent ==
    \A f \in FboNames :
        /\ \A size \in ResizeSizes :
              fbo_resize(fbo_resize(World, f, Size(size[1], size[2])),
                         f, Size(size[1], size[2])).fboSize
                  = fbo_resize(World, f, Size(size[1], size[2])).fboSize
        /\ fbo_resize(World, f, FboSize(f)).fboSize = fboSize

\* A shadow-mode frame leaves the size of every framebuffer as it was.
DepthResizeKeepsSize == PassFrame("shadowmap")' => fboSize' = fboSize

\* C18: resize(w, h) called twice in a row with the same (w, h) leaves the
\* recorded width and height equal to what a single resize(w, h) produces;
\* the depth pass's resize of a framebuffer to its own current width and
\* height never changes its dimensions.
C18_ResizeIdempotent ==
    /\ []ResizeIdempotent
    /\ [][DepthResizeKeepsSize]_vars

\* A depth pass that resized a framebuffer that is not square to its own
\* size.
C18_Witness ==
    /\ PassFrame("shadowmap") /\ FrameCompleted
    /\ \E i \in Calls("resize") :
          /\ log[i].a.width # log[i].a.height
          /\ fboSize[log[i].a.fbo] = <<log[i].a.width, log[i].a.height>>

\* The calls of an operation made inside the depth pass that returns at
\* position r.
CallsIn(r, op) == {i \in Calls(op) : EntryOf(r) < i /\ i < r}

\* C19: during the single scene draw of each depth pass the light's
\* framebuffer is the bound render target, the active shader's u_eye, u_v
\* and u_p hold the shadow camera's eye, view and projection, and the draw
\* excludes the light nodes; the uniforms are overwritten before the bind
\* and restored after the unbind.
C19_DepthDrawState ==
    \A r \in Calls("do_depth_pass.return") :
        /\ Cardinality(CallsIn(r, "scene.render")) = 1
        /\ Cardinality(CallsIn(r, "bindFramebuffer")) = 1
        /\ Cardinality(CallsIn(r, "unbindFramebuffer")) = 1
        /\ \A d \in CallsIn(r, "scene.render") :
              /\ log[d].target = log[r].a.fbo
              /\ log[d].a.excludes = {"light"}
              /\ log[d].a.shader = active_shader
              /\ log[d].act = CamValues(Light_getCamera(log[r].a.light, scene.scale))
              /\ CamOf(log[d].a.u) = log[d].act
              /\ \A b \in CallsIn(r, "bindFramebuffer") :
                    b < d /\ log[b].a.fbo = log[r].a.fbo
              /\ \A u \in CallsIn(r, "unbindFramebuffer") :
                    d < u /\ log[u].a.fbo = log[r].a.fbo
        /\ \A b \in CallsIn(r, "bindFramebuffer") :
              /\ {log[i].a.name : i \in {j \in CallsIn(r, "setUniform") : j < b}}
                     = {"u_eye", "u_v", "u_p"}
              /\ \A i \in CallsIn(r, "setUniform") :
                    i < b =>
                        /\ log[i].a.shader = active_shader
                        /\ log[i].a.value =
                               CamValues(Light_getCamera(log[r].a.light,
                                                         scene.scale))[log[i].a.name]
        /\ \A u \in CallsIn(r, "unbindFramebuffer") :
              /\ {log[i].a.name : i \in {j \in CallsIn(r, "setUniform") : j > u}}
                     = {"u_eye", "u_v", "u_p"}
              /\ \A i \in CallsIn(r, "setUniform") :
                    /\ \A b \in CallsIn(r, "bindFramebuffer") : i < b \/ i > u
                    /\ i > u =>
                          /\ log[i].a.shader = active_shader
                          /\ log[i].a.value = CamValues(camera)[log[i].a.name]

\* The depth draw of a point light, with the main camera moved from where
\* it started: drawn into fbo_point with the light's camera.
C19_Witness ==
    /\ PassFrame("shadowmap") /\ FrameCompleted
    /\ camera.eye # DefaultCamera.eye
    /\ \E r \in Calls("do_depth_pass.return") :
          \E d \in CallsIn(r, "scene.render") :
              /\ log[d].target = "point"
              /\ log[d].act.u_eye # camera.eye
              /\ log[d].act.u_p.m = "perspective"
              /\ log[d].act.u_p # camera.projection

\* The binds and unbinds of the frame, and the unbind that closes the bind
\* at position b: the first bind or unbind after it.
BindCalls == Calls("bindFramebuffer") \cup Calls("unbindFramebuffer")

Balanced(b) ==
    \E u \in Calls("unbindFramebuffer") :
        /\ b < u
        /\ log[u].a.fbo = log[b].a.fbo
        /\ \A i \in BindCalls : ~(b < i /\ i < u)
        /\ \A i \in DOMAIN log : (b < i /\ i <= u) => log[i].target = log[b].a.fbo

\* The draws that go to the screen: the composite draw of the scene, the
\* quad, the light gizmos (drawn one by one or as the scene without its
\* models), the cube.
ScreenDraws ==
    CompositeDraws \cup Calls("quad.render") \cup Calls("light.render")
        \cup Calls("cube.render")
        \cup {i \in Calls("scene.render") : log[i].a.excludes = {"model"}}

\* C20: in every render pass of every mode each bindFramebuffer is followed
\* by the unbindFramebuffer of the same framebuffer before any other
\* framebuffer is bound, at most one offscreen framebuffer is bound at any
\* time, and when the pass has returned without error the default render
\* target is active: the composite scene draw, the quad draw and the gizmo
\* draws go to the default target.
C20_FramebufferBindsBalanced ==
    /\ FrameThrew \/ glFramebuffer = "default"
    /\ InFrame =>
          /\ \A b \in Calls("bindFramebuffer") :
                log[b].target = "default" /\ Balanced(b)
          /\ \A u \in Calls("unbindFramebuffer") : log[u].target = log[u].a.fbo
          /\ \A i \in DOMAIN log :
                log[i].target # "default" =>
                    \E b \in Calls("bindFramebuffer") :
                        b < i /\ log[b].a.fbo = log[i].target
          /\ \A i \in ScreenDraws : log[i].target = "default"
          /\ log[Len(log)].target = "default"

\* A completed shadow frame with a balanced bind of each shadow-map
\* framebuffer and both gizmos drawn.
C20_Witness ==
    /\ PassFrame("shadowmap") /\ FrameCompleted
    /\ {log[b].a.fbo : b \in Calls("bindFramebuffer")} = {"directional", "point"}
    /\ \A b \in Calls("bindFramebuffer") : Balanced(b)
    /\ Cardinality(Calls("light.render")) = 2
    /\ glFramebuffer = "default"

\* The texture a unit holds when call i of a frame is made: what the last
\* bindTexture on the unit before i bound, or what the unit held when the
\* frame started.
UnitAt(calls, start, i, unit) ==
    IF \E k \in 1..(i - 1) : calls[k].op = "bindTexture" /\ calls[k].a.unit = unit
    THEN calls[CHOOSE k \in 1..(i - 1) :
                   /\ calls[k].op = "bindTexture" /\ calls[k].a.unit = unit
                   /\ \A j \in (k + 1)..(i - 1) :
                         ~(calls[j].op = "bindTexture" /\ calls[j].a.unit = unit)].a.texture
    ELSE start[unit]

ShadowUnits == {ShadowUnitDirectional, ShadowUnitPoint}

\* No call of the frame is made with a shadow-map framebuffer as the render
\* target while a shadow unit holds that framebuffer's depth texture.
NoFeedbackIn(calls, start) ==
    \A i \in DOMAIN calls :
        calls[i].target \in Slots =>
            \A unit \in ShadowUnits :
                UnitAt(calls, start, i, unit) # fbo_getDepthTexture(calls[i].target)

\* C21: across any sequence of frames in any modes, whenever fbo_directional
\* or fbo_point is bound as the render target, its depth texture is not
\* bound to texture unit 3 or 4.
C21_NoRenderFeedbackLoop ==
    /\ [][NoFeedbackIn(log', texUnit)]_vars
    /\ [](glFramebuffer \in Slots =>
             \A unit \in ShadowUnits : texUnit[unit] # fbo_getDepthTexture(glFramebuffer))

\* A pixel-filter frame that drew into the directional light's framebuffer,
\* as it does after a shadow frame.
C21_Witness ==
    /\ PassFrame("pixel_filter") /\ FrameCompleted
    /\ \E d \in Calls("scene.render") :
          /\ log[d].target = "directional"
          /\ \A unit \in ShadowUnits : log[d].a.units[unit] = NullTexture

\* ------------------------------------------------------- shading debug
DebugScenes == {<<"model", "directional">>, <<"directional", "point">>}

\* The app under every sequence of Shading Debug selections, with no pixel
\* filter selected.
NextDebug ==
    \/ \E file \in DebugScenes : OpenScene(file, <<100, 100, 100>>)
    \/ \E shading \in ShadingStates, debug \in ShadingDebugStates, input \in ControlInputs :
          UpdateAppStates(shading, -1, debug, input)
    \/ Render(<<640, 480>>, NoFault)

SpecDebug == Init /\ [][NextDebug]_vars

\* What an updateAppStates step with the Shading Debug state debug must
\* leave in fbo_preview and in the active shader's u_show_normals.
DebugFlagsFollow(debug) ==
    /\ fbo_preview' = (debug = "Preview")
    /\ (uniforms'[active_shader'].u_show_normals = 1) = (debug = "Normals")

\* C22: after every updateAppStates, for any sequence of Shading Debug
\* selections, fbo_preview is true exactly when the Shading Debug state is
\* 'Preview', and the active shader's u_show_normals is 1 exactly when it
\* is 'Normals'.
C22_DebugFlagsFollowState ==
    [][\A shading \in ShadingStates, filter \in FilterStates,
          debug \in ShadingDebugStates, input \in ControlInputs :
           UpdateAppStates(shading, filter, debug, input) => DebugFlagsFollow(debug)]_vars

====
